---------------------------- MODULE Spec2Model ----------------------------
(***************************************************************************)
(* Model of the HVAC supplier scraper: the extraction pipeline             *)
(* (suppliersinfo.py: fetch_html, try_subpages, extract_from_url, main)    *)
(* and the discovery pipeline (brands.py: gs_search, ddg_search,           *)
(* likely_supplier_url, dedupe_by_domain, discover_for_brand,              *)
(* write_outputs, main).                                                   *)
(*                                                                         *)
(* Python strings are TLA+ strings; the string operations the code uses    *)
(* (strip, lower, startswith, "in", urljoin, ", ".join) are given by       *)
(* tables over the finite alphabets of inputs below.  Python's None is the *)
(* token None; the truth test "not x" is Falsy(x).                         *)
(***************************************************************************)
EXTENDS Naturals, Sequences, FiniteSets, TLC

None == "<None>"

\* Python truthiness of an optional string: None and "" are falsy.
Falsy(v) == v = None \/ v = ""

\* First n elements of a sequence: s[:n].
Take(s, n) == SubSeq(s, 1, IF Len(s) < n THEN Len(s) ELSE n)

Range(s) == {s[j] : j \in 1..Len(s)}

\* All sequences over S of length at most n.
SeqsUpTo(S, n) == UNION {[1..m -> S] : m \in 0..n}

\* All orderings (duplicate-free sequences) of the finite set S.
Orderings(S) ==
    {f \in [1..Cardinality(S) -> S] : \A a, b \in 1..Cardinality(S) : a # b => f[a] # f[b]}

(***************************************************************************)
(* Bounds of the model.                                                    *)
(***************************************************************************)
MaxLinks == 2        \* anchors on a primary page
NRows    == 3        \* rows of the input spreadsheet
MaxRuns  == 3        \* runs of suppliersinfo.py, one after the other
MaxDiscoveryRuns == 2   \* runs of brands.py, one after the other
NBrands  == 6        \* brands of the BRANDS list that are searched
MaxResults == 1      \* URLs one query returns to discover_for_brand
MaxYield == 2        \* URLs the search() generator can yield
MaxAnchors == 3      \* result anchors on a DuckDuckGo result page
MaxCount == 2        \* the argument `count` of a backend

(***************************************************************************)
(* suppliersinfo.py : configuration and string tables                      *)
(***************************************************************************)
FIELDS == <<"Company Name", "Website", "Location", "Contact Person",
            "Role (Contact Person)", "Phone Number", "Email", "Brands Distributed",
            "Equipment Categories Offered", "Key Parts and Components Available">>

\* Values the "Website" cell of an input row can hold after str(...).
InputURLs == {"", "nan", "NaN ", "None", "acme-hvac.com", " https://acme-hvac.com",
              "httpbogus"}

\* str.strip()
Strip(u) == CASE u = "NaN " -> "NaN"
              [] u = " https://acme-hvac.com" -> "https://acme-hvac.com"
              [] OTHER -> u

\* str.lower()
Lower(u) == CASE u = "NaN" -> "nan"
              [] u = "NaN " -> "nan "
              [] u = "None" -> "none"
              [] OTHER -> u

\* url.startswith("http")
StartsWithHttp(u) == u \in {"https://acme-hvac.com", "httpbogus"}

\* "https://" + url
PrependHttps(u) == CASE u = "acme-hvac.com" -> "https://acme-hvac.com"
                     [] OTHER -> u

\* The hrefs an anchor of a fetched page can carry.
Hrefs == {"", "mailto:sales@acme-hvac.com", "/pricing", "/contact", "/about-us",
          "/brands", "/parts", "//[contact", "ftp://files.acme-hvac.com/catalog.pdf"}

\* href.startswith(("mailto:", "tel:", "javascript:", "#"))
SkippedScheme(h) == h \in {"mailto:sales@acme-hvac.com"}

\* any(k in href_lower for k in ["contact","about","brand","product","service","part","catalog"])
HasHint(h) == h \in {"/contact", "/about-us", "/brands", "/parts", "//[contact",
                     "ftp://files.acme-hvac.com/catalog.pdf"}

\* urllib.parse.urljoin raises ValueError ("Invalid IPv6 URL") on a reference
\* whose network location opens a bracket it never closes.
UrlJoinRaises(h) == h = "//[contact"

\* urljoin(base_url, href) for the hrefs that resolve.
UrlJoin(base, h) ==
    CASE base = "https://acme-hvac.com" /\ h = "/contact"  -> "https://acme-hvac.com/contact"
      [] base = "https://acme-hvac.com" /\ h = "/about-us" -> "https://acme-hvac.com/about-us"
      [] base = "https://acme-hvac.com" /\ h = "/brands"   -> "https://acme-hvac.com/brands"
      [] base = "https://acme-hvac.com" /\ h = "/parts"    -> "https://acme-hvac.com/parts"
      [] base = "https://acme-hvac.com" /\ h = "/pricing"  -> "https://acme-hvac.com/pricing"
      [] h = "ftp://files.acme-hvac.com/catalog.pdf" -> h
      [] OTHER -> base

\* url.startswith(("http://", "https://"))
HasHttpScheme(u) ==
    u \in {"https://acme-hvac.com"}
          \cup {UrlJoin("https://acme-hvac.com", h) :
                    h \in {"/contact", "/about-us", "/brands", "/parts", "/pricing"}}

\* What the extractors can find on a page.
PhoneVals    == {"(212) 555-0101", "(312) 555-0199"}
EmailVals    == {"sales@acme-hvac.com", "info@acme-hvac.com"}
\* soup.find("address"): no element, an element without text, or one with text.
NoElem       == "<no element>"
AddressVals  == {NoElem, "", "12 Main St, Albany NY", "PO Box 9, Troy NY"}
BrandSets    == {{}, {"Carrier"}, {"Carrier", "Trane"}}
CategorySets == {{}, {"Boiler", "Furnace"}}
PartSets     == {{}, {"Coil", "Motor"}}
TitleVals    == {None, "Acme HVAC Supply | Home"}
H1Vals       == {None, "", "Acme Supply Co"}

\* What the primary page can hold: one value of each kind.
PrimaryPhones == {None, "(212) 555-0101"}
PrimaryEmails == {None, "sales@acme-hvac.com"}
PrimaryAddrs  == {NoElem, "", "12 Main St, Albany NY"}
PrimaryBrands == {{}, {"Carrier"}}
PrimaryCats   == {{}, {"Furnace"}}
PrimaryParts  == {{}, {"Coil"}}

\* ", ".join(sorted list)
Join(S) == CASE S = {"Carrier"} -> "Carrier"
             [] S = {"Carrier", "Trane"} -> "Carrier, Trane"
             [] S = {"Furnace"} -> "Furnace"
             [] S = {"Boiler", "Furnace"} -> "Boiler, Furnace"
             [] S = {"Coil"} -> "Coil"
             [] S = {"Coil", "Motor"} -> "Coil, Motor"
             [] OTHER -> ""

\* soup.title.get_text(strip=True).split("|")[0].strip()
TitleHead(t) == CASE t = "Acme HVAC Supply | Home" -> "Acme HVAC Supply"
                  [] OTHER -> t

(***************************************************************************)
(* State.                                                                  *)
(***************************************************************************)
VARIABLES
    \* extract_from_url: one call
    e_pc,          \* position in extract_from_url
    url,           \* the argument, then the normalised URL
    company, phone, email, location, brands, categories, parts,   \* its locals
    primary_key,   \* <<phone, email, brands>> as line 176 read them; <<>> before that
    out,           \* the list `out` of try_subpages, before list(set(out))
    subs,          \* try_subpages(url, soup)[:3]
    sub_k,         \* number of elements of subs the loop has taken
    fetched,       \* the URLs requested over the network, in order
    result,        \* the returned record, None before the return
    \* suppliersinfo.main: the process and the files it leaves behind
    x_pc,          \* position in main ("idle": this program is not the one run)
    rows,          \* the list `rows`
    start_index,
    x_i,           \* index of the input row the loop is at
    rec,           \* the record extract_from_url returned, <<>> when there is none
    progress_file, \* progress_backup.csv
    output_csv,    \* HVAC_Suppliers_Populated.csv
    output_xlsx,   \* HVAC_Suppliers_Populated.xlsx
    x_run,         \* number of this run of the program
    x_hist,        \* what this run has seen: the checkpoint it started from, the
                   \* rows it called extract_from_url for, where Ctrl-C arrived,
                   \* whether it wrote the final CSV, how the run before ended
    \* brands.main: the process and the files it leaves behind
    d_pc,          \* position in main ("idle": this program is not the one run)
    all_rows,      \* the list `all_rows`
    d_i,           \* index of the brand the loop is at
    out_csv,       \* supplier_urls_by_brand.csv
    d_run,         \* number of this run of the program
    d_hist,        \* what this run has seen: the CSV it found, the brands it called
                   \* discover_for_brand for, where Ctrl-C arrived, how the run
                   \* before ended
    \* discover_for_brand: one call
    f_pc,          \* position in discover_for_brand
    f_q,           \* number of queries run
    raw_urls,      \* the list `raw_urls`
    unfiltered,    \* raw_urls as the queries left it
    deduped,       \* the list `deduped`
    found_rows,    \* the returned rows
    dd,            \* dedupe_by_domain applied to the unfiltered list: <<input, output>>
    \* gs_search / ddg_search: one call
    s_pc,          \* position in the backend function
    s_fn,          \* "gs_search" or "ddg_search"
    s_lib,         \* the keyword arguments the installed search() accepts
    s_count,       \* the argument `count`
    s_pending,     \* what the generator / the result page still holds
    s_out,         \* the list `results` (gs_search) or `out` (ddg_search)
    s_net          \* the requests so far: how many, and whether one was answered 403

evars == <<e_pc, url, company, phone, email, location, brands, categories, parts,
           primary_key, out, subs, sub_k, fetched, result>>

xvars == <<x_pc, rows, start_index, x_i, rec, progress_file, output_csv, output_xlsx,
           x_run, x_hist>>

dvars == <<d_pc, all_rows, d_i, out_csv, d_run, d_hist>>

fvars == <<f_pc, f_q, raw_urls, unfiltered, deduped, found_rows, dd>>

svars == <<s_pc, s_fn, s_lib, s_count, s_pending, s_out, s_net>>

vars == <<evars, xvars, dvars, fvars, svars>>

(***************************************************************************)
(* suppliersinfo.py : fetch_html, try_subpages, extract_from_url           *)
(***************************************************************************)
\* What the network does with one request: an exception (timeout, DNS, TLS ...),
\* a response whose status is not 200, or a 200 with a body.
FetchAnswers == {[kind |-> "exception", text |-> ""], [kind |-> "status", text |-> ""],
                 [kind |-> "ok", text |-> ""], [kind |-> "ok", text |-> "<html>"]}

\* fetch_html sends a request only for a non-empty http(s) URL.
Requests(u) == ~Falsy(u) /\ HasHttpScheme(u)

fetch_html(u, answer) ==
    IF ~Requests(u) THEN None
    ELSE IF answer.kind = "ok" THEN answer.text
    ELSE None

\* The list `out` of try_subpages before list(set(out)): the resolved hinted links
\* in document order, duplicates kept.
RECURSIVE SubpageOut(_, _)
SubpageOut(base_url, anchors) ==
    IF anchors = <<>> THEN <<>>
    ELSE LET href == Head(anchors)
             rest == SubpageOut(base_url, Tail(anchors))
         IN  IF href = "" THEN rest
             ELSE IF SkippedScheme(href) THEN rest
             ELSE IF HasHint(href) /\ HasHttpScheme(UrlJoin(base_url, href))
                  THEN <<UrlJoin(base_url, href)>> \o rest
             ELSE rest

\* try_subpages lets the ValueError of urljoin through.
SubpagesRaises(anchors) ==
    \E j \in 1..Len(anchors) :
        anchors[j] # "" /\ ~SkippedScheme(anchors[j]) /\ HasHint(anchors[j])
        /\ UrlJoinRaises(anchors[j])

\* list(set(out)): the distinct URLs, in the order the set iterates them, which
\* for strings changes from one process to the next.
try_subpages(base_url, anchors) == Orderings(Range(SubpageOut(base_url, anchors)))

SUBPAGE_CAP == 3

EmptyRecord(u) == [k \in Range(FIELDS) |-> IF k = "Website" THEN u ELSE None]

ReturnedRecord ==
    [k \in Range(FIELDS) |->
        CASE k = "Company Name" -> company
          [] k = "Website" -> url
          [] k = "Location" -> location
          [] k = "Phone Number" -> phone
          [] k = "Email" -> email
          [] k = "Brands Distributed" -> IF brands # {} THEN Join(brands) ELSE None
          [] k = "Equipment Categories Offered" ->
                IF categories # {} THEN Join(categories) ELSE None
          [] k = "Key Parts and Components Available" ->
                IF parts # {} THEN Join(parts) ELSE None
          [] OTHER -> None]

\* company name: the title before "|", overridden by an h1 that has text
CompanyOf(title, h1) ==
    IF h1 # None /\ h1 # "" THEN h1
    ELSE IF title # None THEN TitleHead(title) ELSE None

\* lines 142-147
E_Normalize ==
    /\ e_pc = "start"
    /\ LET u == Strip(url) IN
        IF u = "" \/ Lower(u) \in {"nan", "none", ""}
        THEN /\ url' = u
             /\ result' = EmptyRecord(u)
             /\ e_pc' = "done"
        ELSE /\ url' = (IF ~StartsWithHttp(u) THEN PrependHttps(u) ELSE u)
             /\ e_pc' = "fetch"
             /\ UNCHANGED result
    /\ UNCHANGED <<company, phone, email, location, brands, categories, parts,
                   primary_key, out, subs, sub_k, fetched>>
    /\ UNCHANGED <<xvars, dvars, fvars, svars>>

\* lines 149-151
E_FetchPrimary ==
    /\ e_pc = "fetch"
    /\ \E answer \in FetchAnswers :
        LET html == fetch_html(url, answer) IN
        /\ fetched' = (IF Requests(url) THEN Append(fetched, url) ELSE fetched)
        /\ IF Falsy(html)
           THEN result' = EmptyRecord(url) /\ e_pc' = "done"
           ELSE e_pc' = "parse" /\ UNCHANGED result
    /\ UNCHANGED <<url, company, phone, email, location, brands, categories, parts,
                   primary_key, out, subs, sub_k>>
    /\ UNCHANGED <<xvars, dvars, fvars, svars>>

\* line 176: not (phone and email and brands)
NeedsCrawlAlways(p, e, b) == TRUE
NeedsCrawl(p, e, b) == ~(~Falsy(p) /\ ~Falsy(e) /\ b # {})

\* lines 153-176: the extractors on the primary page, then the test of line 176
E_ExtractPrimary ==
    /\ e_pc = "parse"
    /\ \E title \in TitleVals, h1 \in H1Vals, addr \in PrimaryAddrs :
        /\ company' = CompanyOf(title, h1)
        /\ location' = (IF addr # NoElem THEN addr ELSE None)
    /\ phone' \in PrimaryPhones
    /\ email' \in PrimaryEmails
    /\ brands' \in PrimaryBrands
    /\ categories' \in PrimaryCats
    /\ parts' \in PrimaryParts
    /\ primary_key' = <<phone', email', brands'>>
    /\ e_pc' = (IF NeedsCrawl(phone', email', brands') THEN "subpages" ELSE "return")
    /\ UNCHANGED <<url, out, subs, sub_k, fetched, result>>
    /\ UNCHANGED <<xvars, dvars, fvars, svars>>

\* soup.select("a[href]") of a primary page: any short list of anchors, or the
\* navigation bar of a site with more hinted links than the crawl visits.
NavigationBar == <<"/contact", "/about-us", "/contact", "/brands", "/parts">>
PageAnchors == SeqsUpTo(Hrefs, MaxLinks) \cup {NavigationBar}

\* line 177: try_subpages(url, soup)[:3], over the anchors of the primary page
E_TrySubpages ==
    /\ e_pc = "subpages"
    /\ \E anchors \in PageAnchors :
        IF SubpagesRaises(anchors)
        THEN e_pc' = "raised" /\ UNCHANGED <<out, subs, sub_k>>
        ELSE /\ out' = SubpageOut(url, anchors)
             /\ \E order \in try_subpages(url, anchors) : subs' = Take(order, SUBPAGE_CAP)
             /\ sub_k' = 0
             /\ e_pc' = "crawl"
    /\ UNCHANGED <<url, company, phone, email, location, brands, categories, parts,
                   primary_key, fetched, result>>
    /\ UNCHANGED <<xvars, dvars, fvars, svars>>

\* lines 182-183, 186-188: `if not x: x = extractor(sub_text)`. The values x can
\* hold after the statement, the extractor finding any of `found`.
FillOverwrite(old, found) == found
Fill(old, found) == IF Falsy(old) THEN found ELSE {old}

FillListOverwrite(old, found) == found
FillList(old, found) == IF old = {} THEN found ELSE {old}

\* lines 184-185: location is taken from the subpage only if still falsy and the
\* subpage has an address element (whose text may be empty).
FillLocation(old, addr) == IF Falsy(old) /\ addr # NoElem THEN addr ELSE old

\* lines 177-188: one turn of the loop over the subpages
E_VisitSub ==
    /\ e_pc = "crawl"
    /\ sub_k < Len(subs)
    /\ sub_k' = sub_k + 1
    /\ LET sub == subs[sub_k + 1] IN
       /\ fetched' = (IF Requests(sub) THEN Append(fetched, sub) ELSE fetched)
       /\ \E answer \in FetchAnswers :
            IF Falsy(fetch_html(sub, answer))
            THEN UNCHANGED <<phone, email, location, brands, categories, parts>>
            ELSE /\ phone' \in Fill(phone, PhoneVals \cup {None})
                 /\ email' \in Fill(email, EmailVals \cup {None})
                 /\ \E addr \in AddressVals : location' = FillLocation(location, addr)
                 /\ brands' \in FillList(brands, BrandSets)
                 /\ categories' \in FillList(categories, CategorySets)
                 /\ parts' \in FillList(parts, PartSets)
    /\ UNCHANGED <<e_pc, url, company, primary_key, out, subs, result>>
    /\ UNCHANGED <<xvars, dvars, fvars, svars>>

\* lines 190-201
E_Return ==
    /\ \/ e_pc = "return"
       \/ e_pc = "crawl" /\ sub_k = Len(subs)
    /\ result' = ReturnedRecord
    /\ e_pc' = "done"
    /\ UNCHANGED <<url, company, phone, email, location, brands, categories, parts,
                   primary_key, out, subs, sub_k, fetched>>
    /\ UNCHANGED <<xvars, dvars, fvars, svars>>

(***************************************************************************)
(* suppliersinfo.py : main                                                 *)
(***************************************************************************)
NoFile == [exists |-> FALSE, lines |-> <<>>]

\* DataFrame(rows).to_csv(path): one line per row; None and NaN both become an
\* empty cell, so a line keeps the input row it came from and the run that
\* extracted it, not the kind of null it held.
to_csv(rs) == [exists |-> TRUE,
               lines |-> [j \in 1..Len(rs) |-> [site |-> rs[j].site, run |-> rs[j].run]]]

\* pd.read_csv(path).to_dict('records'): one record per line, empty cells as NaN.
read_csv(f) == [j \in 1..Len(f.lines) |->
                    [site |-> f.lines[j].site, run |-> f.lines[j].run, nulls |-> "NaN"]]

\* The record extract_from_url returns for input row `site` in run `run`.
Extracted(site, run) == [site |-> site, run |-> run, nulls |-> "None"]

FreshHist(prev) == [ckpt |-> NoFile, called |-> <<>>, interrupted |-> "no",
                    wrote |-> FALSE, prev |-> prev]

IdleMain ==
    /\ x_pc = "idle" /\ rows = <<>> /\ start_index = 0 /\ x_i = 0 /\ rec = <<>>
    /\ progress_file = NoFile /\ output_csv = NoFile /\ output_xlsx = NoFile
    /\ x_run = 0 /\ x_hist = FreshHist("none")

\* lines 215-219: the resume offset is the number of rows of the checkpoint
ResumeFromZero(f) == 0
ResumeIndex(f) == Len(read_csv(f))

\* lines 208-223
X_Start ==
    /\ x_pc = "start"
    /\ IF progress_file.exists
       THEN rows' = read_csv(progress_file) /\ start_index' = ResumeIndex(progress_file)
       ELSE rows' = <<>> /\ start_index' = 0
    /\ x_hist' = [x_hist EXCEPT !.ckpt = progress_file]
    /\ x_i' = 0
    /\ x_pc' = "loop"
    /\ UNCHANGED <<rec, progress_file, output_csv, output_xlsx, x_run>>
    /\ UNCHANGED <<evars, dvars, fvars, svars>>

\* lines 226-229: the next input row, skipped if below the resume offset
X_Loop ==
    /\ x_pc = "loop"
    /\ IF x_i >= NRows THEN x_pc' = "final_csv" /\ UNCHANGED x_i
       ELSE IF x_i < start_index THEN x_i' = x_i + 1 /\ UNCHANGED x_pc
       ELSE x_pc' = "extract" /\ UNCHANGED x_i
    /\ UNCHANGED <<rows, start_index, rec, progress_file, output_csv, output_xlsx,
                   x_run, x_hist>>
    /\ UNCHANGED <<evars, dvars, fvars, svars>>

\* lines 231-233: extract_from_url(site) returns a record
X_Extract ==
    /\ x_pc = "extract"
    /\ rec' = <<Extracted(x_i, x_run)>>
    /\ x_hist' = [x_hist EXCEPT !.called = Append(@, x_i)]
    /\ x_pc' = "append"
    /\ UNCHANGED <<rows, start_index, x_i, progress_file, output_csv, output_xlsx, x_run>>
    /\ UNCHANGED <<evars, dvars, fvars, svars>>

\* line 233: extract_from_url(site) raises (the ValueError of try_subpages); main
\* catches KeyboardInterrupt only, so the process ends with a traceback
X_ExtractRaises ==
    /\ x_pc = "extract"
    /\ x_hist' = [x_hist EXCEPT !.called = Append(@, x_i)]
    /\ x_pc' = "crashed"
    /\ UNCHANGED <<rows, start_index, x_i, rec, progress_file, output_csv, output_xlsx,
                   x_run>>
    /\ UNCHANGED <<evars, dvars, fvars, svars>>

\* line 234
X_Append ==
    /\ x_pc = "append"
    /\ rows' = Append(rows, rec[1])
    /\ rec' = <<>>
    /\ x_pc' = "save"
    /\ UNCHANGED <<start_index, x_i, progress_file, output_csv, output_xlsx, x_run,
                   x_hist>>
    /\ UNCHANGED <<evars, dvars, fvars, svars>>

\* lines 237-243: the checkpoint is rewritten with every row so far; then the delay
X_Save ==
    /\ x_pc = "save"
    /\ progress_file' = to_csv(rows)
    /\ x_i' = x_i + 1
    /\ x_pc' = "loop"
    /\ UNCHANGED <<rows, start_index, rec, output_csv, output_xlsx, x_run, x_hist>>
    /\ UNCHANGED <<evars, dvars, fvars, svars>>

\* lines 245-248: Ctrl-C inside the try block prints and returns; anywhere else in
\* main nothing catches it
X_Interrupt ==
    /\ x_pc \in {"start", "loop", "extract", "append", "save", "final_csv", "final_xlsx",
                 "cleanup", "cleaned"}
    /\ x_hist.interrupted = "no"
    /\ x_hist' = [x_hist EXCEPT !.interrupted = x_pc]
    /\ x_pc' = (IF x_pc \in {"loop", "extract", "append", "save"} THEN "exited"
                ELSE "crashed")
    /\ UNCHANGED <<rows, start_index, x_i, rec, progress_file, output_csv, output_xlsx,
                   x_run>>
    /\ UNCHANGED <<evars, dvars, fvars, svars>>

\* lines 250-252
X_FinalCsv ==
    /\ x_pc = "final_csv"
    /\ output_csv' = to_csv(rows)
    /\ x_hist' = [x_hist EXCEPT !.wrote = TRUE]
    /\ x_pc' = "final_xlsx"
    /\ UNCHANGED <<rows, start_index, x_i, rec, progress_file, output_xlsx, x_run>>
    /\ UNCHANGED <<evars, dvars, fvars, svars>>

\* lines 256-257, 263-265: where main goes on after to_excel, which returns, or
\* raises PermissionError (caught), or raises something else (not caught)
AfterToExcelAlwaysCleanup(outcome) == "cleanup"
AfterToExcel(outcome) ==
    CASE outcome = "saved" -> "cleanup"
      [] outcome = "PermissionError" -> "done_csv_only"
      [] OTHER -> "crashed"

\* line 257: out_df.to_excel(OUTPUT_XLSX)
X_FinalXlsx ==
    /\ x_pc = "final_xlsx"
    /\ \E outcome \in {"saved", "PermissionError", "error"} :
        /\ output_xlsx' = (IF outcome = "saved" THEN to_csv(rows) ELSE output_xlsx)
        /\ x_pc' = AfterToExcel(outcome)
    /\ UNCHANGED <<rows, start_index, x_i, rec, progress_file, output_csv, x_run, x_hist>>
    /\ UNCHANGED <<evars, dvars, fvars, svars>>

\* lines 260-261: the checkpoint after os.remove, which removes it or raises
ProgressAfterXlsx(removed, f) == IF removed THEN NoFile ELSE f

\* lines 258-261, 263-265: after the print, os.remove(PROGRESS_FILE) if the file
\* exists; a PermissionError of os.remove ends in the same handler as one of
\* to_excel
X_RemoveProgress ==
    /\ x_pc = "cleanup"
    /\ IF ~progress_file.exists
       THEN x_pc' = "done" /\ UNCHANGED progress_file
       ELSE \E outcome \in {"removed", "PermissionError"} :
            /\ progress_file' = ProgressAfterXlsx(outcome = "removed", progress_file)
            /\ x_pc' = (IF outcome = "removed" THEN "cleaned" ELSE "done_csv_only")
    /\ UNCHANGED <<rows, start_index, x_i, rec, output_csv, output_xlsx, x_run, x_hist>>
    /\ UNCHANGED <<evars, dvars, fvars, svars>>

\* line 262: the print that follows the removal
X_Cleaned ==
    /\ x_pc = "cleaned"
    /\ x_pc' = "done"
    /\ UNCHANGED <<rows, start_index, x_i, rec, progress_file, output_csv, output_xlsx,
                   x_run, x_hist>>
    /\ UNCHANGED <<evars, dvars, fvars, svars>>

\* the program is started again: a new process, the files as they were left
X_Rerun ==
    /\ x_pc \in {"exited", "crashed", "done", "done_csv_only"}
    /\ x_run < MaxRuns
    /\ x_run' = x_run + 1
    /\ x_pc' = "start"
    /\ rows' = <<>> /\ start_index' = 0 /\ x_i' = 0 /\ rec' = <<>>
    /\ x_hist' = FreshHist(x_pc)
    /\ UNCHANGED <<progress_file, output_csv, output_xlsx>>
    /\ UNCHANGED <<evars, dvars, fvars, svars>>

InitMain ==
    /\ x_pc = "start" /\ rows = <<>> /\ start_index = 0 /\ x_i = 0 /\ rec = <<>>
    /\ progress_file = NoFile /\ output_csv = NoFile /\ output_xlsx = NoFile
    /\ x_run = 1 /\ x_hist = FreshHist("none")

(***************************************************************************)
(* brands.py : configuration, likely_supplier_url, dedupe_by_domain,       *)
(* discover_for_brand, write_outputs                                       *)
(***************************************************************************)
\* The head of the BRANDS list; main searches the first NBrands of them.
BRANDS == <<"Carrier", "Trane", "Lennox", "Daikin", "Mitsubishi Electric", "Goodman",
            "Rheem", "Ruud">>

\* Position of a brand name in the order sort_values gives the Brand column.
BrandRank(b) == CASE b = "Carrier" -> 1 [] b = "Daikin" -> 2 [] b = "Goodman" -> 3
                  [] b = "Lennox" -> 4 [] b = "Mitsubishi Electric" -> 5
                  [] b = "Rheem" -> 6 [] b = "Ruud" -> 7 [] b = "Trane" -> 8
                  [] OTHER -> 9

\* URLs a search can return.
SearchURLs == {"https://facebook.com/carrier", "https://abcsupply.com/carrier",
               "https://shop.abcsupply.com/parts", "https://acmehvac.co.uk/careers",
               "http://192.168.0.1/hvac", "https://www.linkedin.com/company/Trane"}

\* tldextract.extract(u).registered_domain ("" when the host has none)
RegisteredDomain(u) ==
    CASE u = "https://facebook.com/carrier" -> "facebook.com"
      [] u = "https://abcsupply.com/carrier" -> "abcsupply.com"
      [] u = "https://shop.abcsupply.com/parts" -> "abcsupply.com"
      [] u = "https://acmehvac.co.uk/careers" -> "acmehvac.co.uk"
      [] u = "https://www.linkedin.com/company/Trane" -> "linkedin.com"
      [] OTHER -> ""

\* Position of a domain in the order sort_values gives the Domain column.
DomainRank(d) == CASE d = "" -> 0 [] d = "abcsupply.com" -> 1 [] d = "acmehvac.co.uk" -> 2
                   [] d = "facebook.com" -> 3 [] OTHER -> 4

SKIP_DOMAIN_CONTAINS ==
    {"facebook.com", "twitter.com", "linkedin.com", "instagram.com", "youtube.com",
     "indeed.com", "glassdoor.com", "ziprecruiter.com", "wikipedia.org", "amazon.com",
     "ebay.com", "/careers", "/jobs", "/news", "/blog", "/press", "/cookie", "/privacy",
     "/terms", "/legal"}

\* The list `bad` of likely_supplier_url.
BadDomains ==
    {"facebook.com", "twitter.com", "linkedin.com", "instagram.com", "youtube.com",
     "indeed.com", "glassdoor.com", "ziprecruiter.com", "wikipedia.org", "amazon.com",
     "ebay.com"}

\* The strings of SKIP_DOMAIN_CONTAINS that occur in url.lower().
SkipSubstringsIn(u) ==
    CASE u = "https://facebook.com/carrier" -> {"facebook.com"}
      [] u = "https://acmehvac.co.uk/careers" -> {"/careers"}
      [] u = "https://www.linkedin.com/company/Trane" -> {"linkedin.com"}
      [] OTHER -> {}

likely_supplier_url(u) == ~(\E b \in BadDomains : b \in SkipSubstringsIn(u))

\* [u for u in raw_urls if likely_supplier_url(u)]
FilterUrls(urls) == SelectSeq(urls, likely_supplier_url)

RECURSIVE DedupeNoSeen(_, _)
DedupeNoSeen(urls, seen) ==
    IF urls = <<>> THEN <<>>
    ELSE LET u == Head(urls)
             dom == RegisteredDomain(u)
         IN  IF dom = "" THEN DedupeNoSeen(Tail(urls), seen)
             ELSE <<u>> \o DedupeNoSeen(Tail(urls), seen)

\* the loop of dedupe_by_domain, `seen` being the domains met so far
RECURSIVE DedupeLoop(_, _)
DedupeLoop(urls, seen) ==
    IF urls = <<>> THEN <<>>
    ELSE LET u == Head(urls)
             dom == RegisteredDomain(u)
         IN  IF dom = "" \/ dom \in seen THEN DedupeLoop(Tail(urls), seen)
             ELSE <<u>> \o DedupeLoop(Tail(urls), seen \cup {dom})

dedupe_by_domain(urls) == DedupeLoop(urls, {})

MAX_DOMAINS_PER_BRAND == 50

\* lines 193-201: one row per retained URL
BuildRows(brand, kept) ==
    [j \in 1..Len(kept) |->
        [Brand |-> brand, Domain |-> RegisteredDomain(kept[j]), URL |-> kept[j],
         Query |-> ""]]

\* discover_for_brand from line 188 on, `raw` being what the queries returned
discover_for_brand(brand, raw) ==
    BuildRows(brand, Take(dedupe_by_domain(FilterUrls(raw)), MAX_DOMAINS_PER_BRAND))

RowBefore(a, b) ==
    \/ BrandRank(a.Brand) < BrandRank(b.Brand)
    \/ BrandRank(a.Brand) = BrandRank(b.Brand) /\ DomainRank(a.Domain) < DomainRank(b.Domain)

\* df.sort_values(["Brand","Domain"]): insertion of each row after the rows that
\* do not come after it
RECURSIVE SortRows(_)
SortRows(rs) ==
    IF rs = <<>> THEN <<>>
    ELSE LET sorted == SortRows(SubSeq(rs, 1, Len(rs) - 1))
             r == rs[Len(rs)]
             k == Cardinality({j \in 1..Len(sorted) : ~RowBefore(r, sorted[j])})
         IN  SubSeq(sorted, 1, k) \o <<r>> \o SubSeq(sorted, k + 1, Len(sorted))

\* write_outputs: the CSV holds the rows sorted by Brand, then Domain. The
\* spreadsheet is written after it; its write can raise, the CSV being on disk.
write_outputs(rs) == [exists |-> TRUE, lines |-> SortRows(rs)]
XlsxOutcomes == {"saved", "raised"}

(***************************************************************************)
(* brands.py : main                                                        *)
(***************************************************************************)
\* What the searches for one brand return, as main sees it.
DiscoveryAnswers == {<<"https://facebook.com/carrier">>, <<"https://abcsupply.com/carrier">>}

SAVE_EVERY == 5

FreshDHist(prev, csv) == [csv0 |-> csv, processed |-> <<>>, interrupted |-> "no",
                          prev |-> prev]

IdleDiscovery ==
    /\ d_pc = "idle" /\ all_rows = <<>> /\ d_i = 0 /\ out_csv = NoFile
    /\ d_run = 0 /\ d_hist = FreshDHist("none", NoFile)

\* lines 215-216: the next brand, or the end of the loop
D_Head ==
    /\ d_pc = "head"
    /\ d_pc' = (IF d_i >= NBrands THEN "final" ELSE "discover")
    /\ UNCHANGED <<all_rows, d_i, out_csv, d_run, d_hist>>
    /\ UNCHANGED <<evars, xvars, fvars, svars>>

\* lines 218-220
D_Discover ==
    /\ d_pc = "discover"
    /\ \E raw \in DiscoveryAnswers :
         all_rows' = all_rows \o discover_for_brand(BRANDS[d_i + 1], raw)
    /\ d_hist' = [d_hist EXCEPT !.processed = Append(@, d_i)]
    /\ d_pc' = "maybe_save"
    /\ UNCHANGED <<d_i, out_csv, d_run>>
    /\ UNCHANGED <<evars, xvars, fvars, svars>>

\* lines 218, 231-233: discover_for_brand raises; the brand is given up
D_DiscoverRaises ==
    /\ d_pc = "discover"
    /\ d_hist' = [d_hist EXCEPT !.processed = Append(@, d_i)]
    /\ d_i' = d_i + 1
    /\ d_pc' = "head"
    /\ UNCHANGED <<all_rows, out_csv, d_run>>
    /\ UNCHANGED <<evars, xvars, fvars, svars>>

\* lines 223-225 (and 231-233 when to_excel raises, the CSV being written by then)
D_MaybeSave ==
    /\ d_pc = "maybe_save"
    /\ IF (d_i + 1) % SAVE_EVERY = 0 \/ d_i = NBrands - 1
       THEN out_csv' = write_outputs(all_rows)
       ELSE UNCHANGED out_csv
    /\ d_i' = d_i + 1
    /\ d_pc' = "head"
    /\ UNCHANGED <<all_rows, d_run, d_hist>>
    /\ UNCHANGED <<evars, xvars, fvars, svars>>

\* lines 227-230: Ctrl-C inside the try block: write_outputs(all_rows), break.
\* Lines 215-216 and 235-236 are outside every try: there the process ends with
\* the files as they are, the CSV of the final save being written once to_csv
\* of line 206 has returned.
InterruptHandled(pc) == pc \in {"discover", "maybe_save"}

D_Interrupt ==
    /\ d_pc \in {"head", "discover", "maybe_save", "final", "final_xlsx"}
    /\ d_hist.interrupted = "no"
    /\ d_hist' = [d_hist EXCEPT !.interrupted = d_pc]
    /\ IF InterruptHandled(d_pc)
       THEN /\ out_csv' = write_outputs(all_rows)
            /\ \E xlsx \in XlsxOutcomes :
                 d_pc' = (IF xlsx = "saved" THEN "final" ELSE "crashed")
       ELSE d_pc' = "crashed" /\ UNCHANGED out_csv
    /\ UNCHANGED <<all_rows, d_i, d_run>>
    /\ UNCHANGED <<evars, xvars, fvars, svars>>

\* lines 235-236, 204-206: the final save as far as df.to_csv
D_Final ==
    /\ d_pc = "final"
    /\ out_csv' = write_outputs(all_rows)
    /\ d_pc' = "final_xlsx"
    /\ UNCHANGED <<all_rows, d_i, d_run, d_hist>>
    /\ UNCHANGED <<evars, xvars, fvars, svars>>

\* line 207 of the final save: df.to_excel, which returns or raises
D_FinalXlsx ==
    /\ d_pc = "final_xlsx"
    /\ \E xlsx \in XlsxOutcomes : d_pc' = (IF xlsx = "saved" THEN "done" ELSE "crashed")
    /\ UNCHANGED <<all_rows, d_i, out_csv, d_run, d_hist>>
    /\ UNCHANGED <<evars, xvars, fvars, svars>>

\* the program is started again: a new process, the files as they were left
D_Rerun ==
    /\ d_pc \in {"done", "crashed"}
    /\ d_run < MaxDiscoveryRuns
    /\ d_run' = d_run + 1
    /\ d_pc' = "head"
    /\ all_rows' = <<>> /\ d_i' = 0
    /\ d_hist' = FreshDHist(IF d_hist.interrupted # "no" THEN "interrupted" ELSE d_pc,
                            out_csv)
    /\ UNCHANGED out_csv
    /\ UNCHANGED <<evars, xvars, fvars, svars>>

InitDiscovery ==
    /\ d_pc = "head" /\ all_rows = <<>> /\ d_i = 0 /\ out_csv = NoFile
    /\ d_run = 1 /\ d_hist = FreshDHist("none", NoFile)

(***************************************************************************)
(* brands.py : discover_for_brand, step by step                            *)
(***************************************************************************)
QUERIES_PER_BRAND == 3
RESULTS_PER_QUERY == 5

IdleFilter ==
    /\ f_pc = "idle" /\ f_q = 0 /\ raw_urls = <<>> /\ unfiltered = <<>> /\ deduped = <<>>
    /\ found_rows = <<>> /\ dd = <<>>

\* lines 182-186: one query; the backend returns at most `count` URLs
F_Query ==
    /\ f_pc = "queries"
    /\ f_q < QUERIES_PER_BRAND
    /\ \E urls \in SeqsUpTo(SearchURLs, IF MaxResults < RESULTS_PER_QUERY
                                        THEN MaxResults ELSE RESULTS_PER_QUERY) :
         raw_urls' = raw_urls \o urls
    /\ f_q' = f_q + 1
    /\ UNCHANGED <<f_pc, unfiltered, deduped, found_rows, dd>>
    /\ UNCHANGED <<evars, xvars, dvars, svars>>

\* dedupe_by_domain on the list as the queries left it
F_DedupeAny ==
    /\ f_pc = "queries"
    /\ f_q = QUERIES_PER_BRAND
    /\ dd = <<>>
    /\ dd' = <<raw_urls, dedupe_by_domain(raw_urls)>>
    /\ UNCHANGED <<f_pc, f_q, raw_urls, unfiltered, deduped, found_rows>>
    /\ UNCHANGED <<evars, xvars, dvars, svars>>

\* line 189
F_Filter ==
    /\ f_pc = "queries"
    /\ f_q = QUERIES_PER_BRAND
    /\ unfiltered' = raw_urls
    /\ raw_urls' = FilterUrls(raw_urls)
    /\ f_pc' = "filtered"
    /\ UNCHANGED <<f_q, deduped, found_rows, dd>>
    /\ UNCHANGED <<evars, xvars, dvars, svars>>

\* line 190
F_Dedupe ==
    /\ f_pc = "filtered"
    /\ deduped' = Take(dedupe_by_domain(raw_urls), MAX_DOMAINS_PER_BRAND)
    /\ f_pc' = "deduped"
    /\ UNCHANGED <<f_q, raw_urls, unfiltered, found_rows, dd>>
    /\ UNCHANGED <<evars, xvars, dvars, svars>>

\* lines 193-201
F_Rows ==
    /\ f_pc = "deduped"
    /\ found_rows' = BuildRows("Carrier", deduped)
    /\ f_pc' = "returned"
    /\ UNCHANGED <<f_q, raw_urls, unfiltered, deduped, dd>>
    /\ UNCHANGED <<evars, xvars, dvars, svars>>

InitFilter ==
    /\ f_pc = "queries" /\ f_q = 0 /\ raw_urls = <<>> /\ unfiltered = <<>> /\ deduped = <<>>
    /\ found_rows = <<>> /\ dd = <<>>

(***************************************************************************)
(* brands.py : gs_search, ddg_search                                       *)
(***************************************************************************)
\* The keyword arguments search() takes differ between the googlesearch packages:
\* num_results=..., or num=..., or neither of the two call forms of gs_search.
SearchLibs == {"num_results", "num", "neither"}

YieldURLs == {"https://facebook.com/carrier", "https://abcsupply.com/carrier"}

\* href attributes of the a.result__a anchors of a result page; NoHref: none
NoHref == "<no href>"
ResultHrefs == {NoHref,
                "//duckduckgo.com/l/?uddg=https%3A%2F%2Fabcsupply.com%2Fcarrier",
                "//duckduckgo.com/l/?uddg=",
                "https://facebook.com/carrier",
                "/settings"}

\* _unwrap_ddg_href
unwrap_ddg_href(href) ==
    CASE href = "//duckduckgo.com/l/?uddg=https%3A%2F%2Fabcsupply.com%2Fcarrier"
            -> "https://abcsupply.com/carrier"
      [] href = "//duckduckgo.com/l/?uddg=" -> None
      [] href = "https://facebook.com/carrier" -> href
      [] OTHER -> None

\* On entry to gs_search or ddg_search: the call has sent no request yet.
NoNet == [requests |-> 0, blocked |-> FALSE]

\* No call of a search backend is followed step by step: its requests are not
\* counted.
IdleSearch ==
    /\ s_pc = "idle" /\ s_fn = "" /\ s_lib = "" /\ s_count = 0 /\ s_pending = <<>>
    /\ s_out = <<>> /\ s_net = None

\* What one request to the search engine meets: the results, a transport error,
\* HTTP 403, or another error status.
NetErrors == {"transport", "403", "500"}

\* lines 30-32 / 37-39: the call search(...); a keyword the installed function
\* does not take raises TypeError before anything is fetched
AcceptsCall(lib, attempt) ==
    \/ attempt = "try1" /\ lib = "num_results"
    \/ attempt = "try2" /\ lib = "num"

\* lines 35-36, 42-44: where an exception raised in an attempt leads. TypeError in
\* the first attempt leads to the second; nothing else is caught there.
AfterException(attempt, exc) ==
    CASE attempt = "try1" /\ exc = "TypeError" -> "try2"
      [] attempt = "try1" -> "raised"
      [] OTHER -> "returned"

G_Call ==
    /\ s_fn = "gs_search"
    /\ s_pc \in {"try1", "try2"}
    /\ IF AcceptsCall(s_lib, s_pc)
       THEN /\ s_pc' = (IF s_pc = "try1" THEN "iter1" ELSE "iter2")
            /\ s_pending' \in SeqsUpTo(YieldURLs, MaxYield)
       ELSE /\ s_pc' = AfterException(s_pc, "TypeError")
            /\ UNCHANGED s_pending
    /\ UNCHANGED <<s_fn, s_lib, s_count, s_out, s_net>>
    /\ UNCHANGED <<evars, xvars, dvars, fvars>>

\* lines 32-33 / 39-40: the generator yields the next URL
G_Yield ==
    /\ s_fn = "gs_search"
    /\ s_pc \in {"iter1", "iter2"}
    /\ s_pending # <<>>
    /\ s_out' = Append(s_out, Head(s_pending))
    /\ s_pending' = Tail(s_pending)
    /\ s_net' = [s_net EXCEPT !.requests = IF s_out = <<>> THEN @ + 1 ELSE @]
    /\ UNCHANGED <<s_pc, s_fn, s_lib, s_count>>
    /\ UNCHANGED <<evars, xvars, dvars, fvars>>

\* the generator is exhausted: return results (line 34 / 41)
G_Stop ==
    /\ s_fn = "gs_search"
    /\ s_pc \in {"iter1", "iter2"}
    /\ s_pending = <<>>
    /\ s_pc' = "returned"
    /\ UNCHANGED <<s_fn, s_lib, s_count, s_pending, s_out, s_net>>
    /\ UNCHANGED <<evars, xvars, dvars, fvars>>

\* the request behind the generator fails
G_NetError ==
    /\ s_fn = "gs_search"
    /\ s_pc \in {"iter1", "iter2"}
    /\ \E err \in NetErrors :
        /\ s_net' = [requests |-> s_net.requests + 1,
                     blocked |-> s_net.blocked \/ err = "403"]
        /\ s_pc' = AfterException(IF s_pc = "iter1" THEN "try1" ELSE "try2", err)
    /\ UNCHANGED <<s_fn, s_lib, s_count, s_pending, s_out>>
    /\ UNCHANGED <<evars, xvars, dvars, fvars>>

\* lines 67-72, 85-94: the request of ddg_search
S_Get ==
    /\ s_fn = "ddg_search"
    /\ s_pc = "get"
    /\ \/ \E err \in NetErrors :
            /\ s_net' = [requests |-> s_net.requests + 1, blocked |-> err = "403"]
            /\ s_pc' = "returned"
            /\ UNCHANGED s_pending
       \/ /\ s_pending' \in SeqsUpTo(ResultHrefs, MaxAnchors)
          /\ s_net' = [s_net EXCEPT !.requests = @ + 1]
          /\ s_pc' = "scan"
    /\ UNCHANGED <<s_fn, s_lib, s_count, s_out>>
    /\ UNCHANGED <<evars, xvars, dvars, fvars>>

\* lines 75-83: one anchor of the result page
S_Scan ==
    /\ s_fn = "ddg_search"
    /\ s_pc = "scan"
    /\ s_pending # <<>>
    /\ LET href == Head(s_pending)
           real == IF href = NoHref THEN None ELSE unwrap_ddg_href(href)
       IN  IF real # None
           THEN /\ s_out' = Append(s_out, real)
                /\ IF Len(s_out') >= s_count
                   THEN s_pc' = "returned" /\ UNCHANGED s_pending
                   ELSE s_pending' = Tail(s_pending) /\ UNCHANGED s_pc
           ELSE /\ s_pending' = Tail(s_pending)
                /\ UNCHANGED <<s_out, s_pc>>
    /\ UNCHANGED <<s_fn, s_lib, s_count, s_net>>
    /\ UNCHANGED <<evars, xvars, dvars, fvars>>

\* line 84
S_Return ==
    /\ s_fn = "ddg_search"
    /\ s_pc = "scan"
    /\ s_pending = <<>>
    /\ s_pc' = "returned"
    /\ UNCHANGED <<s_fn, s_lib, s_count, s_pending, s_out, s_net>>
    /\ UNCHANGED <<evars, xvars, dvars, fvars>>

InitSearch ==
    /\ s_fn \in {"gs_search", "ddg_search"}
    /\ s_pc = (IF s_fn = "gs_search" THEN "try1" ELSE "get")
    /\ s_lib \in (IF s_fn = "gs_search" THEN SearchLibs ELSE {""})
    /\ s_count \in 1..MaxCount
    /\ s_pending = <<>> /\ s_out = <<>> /\ s_net = NoNet

IdleExtract ==
    /\ e_pc = "idle" /\ url = "" /\ company = None /\ phone = None /\ email = None
    /\ location = None /\ brands = {} /\ categories = {} /\ parts = {}
    /\ primary_key = <<>> /\ out = <<>> /\ subs = <<>> /\ sub_k = 0 /\ fetched = <<>> /\ result = None

(***************************************************************************)
(* Specifications.                                                         *)
(***************************************************************************)
\* One of the two programs, run again and again on the files it left.
InitBatch ==
    /\ IdleExtract /\ IdleFilter /\ IdleSearch
    /\ \/ InitMain /\ IdleDiscovery
       \/ IdleMain /\ InitDiscovery

NextBatch ==
    \/ X_Start
    \/ X_Loop
    \/ X_Extract
    \/ X_ExtractRaises
    \/ X_Append
    \/ X_Save
    \/ X_Interrupt
    \/ X_FinalCsv
    \/ X_FinalXlsx
    \/ X_RemoveProgress
    \/ X_Cleaned
    \/ X_Rerun
    \/ D_Head
    \/ D_Discover
    \/ D_DiscoverRaises
    \/ D_MaybeSave
    \/ D_Interrupt
    \/ D_Final
    \/ D_FinalXlsx
    \/ D_Rerun

SpecBatch == InitBatch /\ [][NextBatch]_vars

\* One call of extract_from_url.
InitExtract ==
    /\ e_pc = "start"
    /\ url \in InputURLs
    /\ company = None /\ phone = None /\ email = None /\ location = None
    /\ brands = {} /\ categories = {} /\ parts = {}
    /\ primary_key = <<>>
    /\ out = <<>> /\ subs = <<>> /\ sub_k = 0 /\ fetched = <<>>
    /\ result = None
    /\ IdleMain /\ IdleDiscovery /\ IdleFilter /\ IdleSearch

NextExtract ==
    \/ E_Normalize
    \/ E_FetchPrimary
    \/ E_ExtractPrimary
    \/ E_TrySubpages
    \/ E_VisitSub
    \/ E_Return

SpecExtract == InitExtract /\ [][NextExtract]_vars

\* One call of discover_for_brand.
InitDiscover == InitFilter /\ IdleExtract /\ IdleMain /\ IdleDiscovery /\ IdleSearch

NextDiscover ==
    \/ F_Query
    \/ F_DedupeAny
    \/ F_Filter
    \/ F_Dedupe
    \/ F_Rows

SpecDiscover == InitDiscover /\ [][NextDiscover]_vars

\* One call of a search backend.
InitBackend == InitSearch /\ IdleExtract /\ IdleMain /\ IdleDiscovery /\ IdleFilter

NextBackend ==
    \/ G_Call
    \/ G_Yield
    \/ G_Stop
    \/ G_NetError
    \/ S_Get
    \/ S_Scan
    \/ S_Return

SpecSearch == InitBackend /\ [][NextBackend]_vars

(***************************************************************************)
(* Properties of extract_from_url (SpecExtract).                           *)
(***************************************************************************)
\* C3: extract_from_url never raises to its caller, and the record it returns has
\* exactly the ten FIELDS as keys.
C3_ExtractionTotality ==
    /\ e_pc # "raised"
    /\ e_pc = "done" => DOMAIN result = Range(FIELDS)

\* C4 as stated: once one of phone, email, location, brands, categories, parts
\* holds a value other than None (an empty list for the three lists), no later
\* step of the subpage loop changes it.
C4_NonAbsentKept ==
    [][/\ phone # None => phone' = phone
       /\ email # None => email' = email
       /\ location # None => location' = location
       /\ brands # {} => brands' = brands
       /\ categories # {} => categories' = categories
       /\ parts # {} => parts' = parts]_vars

\* C4 as amended: once one of the six fields holds a non-empty value (neither
\* None, nor "", nor an empty list) no later step changes it, and a phone number
\* found on the primary page is the phone number of the returned record.
C4_NonEmptyKept ==
    [][/\ ~Falsy(phone) => phone' = phone
       /\ ~Falsy(email) => email' = email
       /\ ~Falsy(location) => location' = location
       /\ brands # {} => brands' = brands
       /\ categories # {} => categories' = categories
       /\ parts # {} => parts' = parts
       /\ (e_pc' = "done" /\ primary_key' # <<>> /\ ~Falsy(primary_key'[1]))
             => result'["Phone Number"] = primary_key'[1]]_vars

\* A subpage was fetched and merged (it filled the e-mail address the primary
\* page lacked) while the phone number of the primary page stayed.
C4_Witness ==
    /\ e_pc = "done"
    /\ primary_key # <<>>
    /\ ~Falsy(primary_key[1]) /\ Falsy(primary_key[2])
    /\ sub_k >= 1
    /\ result["Email"] # None
    /\ result["Phone Number"] = primary_key[1]

KeyMissing(pk) == Falsy(pk[1]) \/ Falsy(pk[2]) \/ pk[3] = {}

\* C10: a subpage is fetched only after a successful primary fetch that left one
\* of phone, email, brands absent or empty; with all three present no subpage is
\* fetched; a failed primary fetch returns the all-absent record and fetches
\* nothing further.
C10_Orchestration ==
    /\ Len(fetched) > 1 => (primary_key # <<>> /\ KeyMissing(primary_key))
    /\ (primary_key # <<>> /\ ~KeyMissing(primary_key)) => fetched = <<url>>
    /\ (e_pc = "done" /\ primary_key = <<>>)
          => (result = EmptyRecord(url) /\ Len(fetched) <= 1)

\* Phone and e-mail were on the primary page, no brand was, and two subpages
\* were fetched.
C10_Witness ==
    /\ primary_key # <<>>
    /\ ~Falsy(primary_key[1]) /\ ~Falsy(primary_key[2]) /\ primary_key[3] = {}
    /\ Len(fetched) = 3

(***************************************************************************)
(* Properties of the two batch programs (SpecBatch).                       *)
(***************************************************************************)
IsPrefix(a, b) == Len(a) <= Len(b) /\ SubSeq(b, 1, Len(a)) = a

\* The rows K..NRows-1 in order, K being the number of rows of the checkpoint
\* the run started from.
RowsLeft(K) == [j \in 1..(NRows - K) |-> K + j - 1]

\* C1: a run that no Ctrl-C ends has called extract_from_url for exactly the rows
\* K..N-1 and has written a final CSV of exactly N rows.
C1_ResumeCorrectness ==
    (x_pc \in {"done", "done_csv_only", "crashed"} /\ x_hist.interrupted = "no")
        => /\ x_hist.called = RowsLeft(Len(x_hist.ckpt.lines))
           /\ x_hist.wrote
           /\ Len(output_csv.lines) = NRows

\* The arithmetic of the resume offset alone: a run that reaches the final write
\* has called extract_from_url for the rows K..N-1 and writes N rows.
ResumeArithmetic ==
    x_hist.wrote => /\ x_hist.called = RowsLeft(Len(x_hist.ckpt.lines))
                    /\ Len(output_csv.lines) = NRows

\* Rows of the units the extraction loop has completed: those of the checkpoint
\* and those of the iterations that ran to their end.
CompletedRows == Take(to_csv(rows).lines, IF x_i < start_index THEN start_index ELSE x_i)

\* C2: when Ctrl-C arrives during the batch loop of either program, every row
\* collected from the units completed before it is in the output CSV (discovery)
\* or in the checkpoint (extraction) when the process has ended.
C2_InterruptPersists ==
    /\ (d_pc \in {"done", "crashed"} /\ d_hist.interrupted \in {"head", "discover", "maybe_save"})
          => Range(all_rows) \subseteq Range(out_csv.lines)
    /\ (x_pc \in {"exited", "crashed"} /\ x_hist.interrupted \in {"loop", "extract", "append", "save"})
          => Range(CompletedRows) \subseteq Range(progress_file.lines)

\* The extraction half of C2 on its own.
ExtractionInterruptPersists ==
    (x_pc \in {"exited", "crashed"} /\ x_hist.interrupted \in {"loop", "extract", "append", "save"})
          => Range(CompletedRows) \subseteq Range(progress_file.lines)

\* The extraction pipeline resumes: no row of the checkpoint a run started from is
\* extracted again, and those rows stay at the head of the checkpoint and of the
\* final CSV.
ExtractionResumes ==
    /\ \A j \in Range(x_hist.called) : j >= Len(x_hist.ckpt.lines)
    /\ progress_file.exists => IsPrefix(x_hist.ckpt.lines, progress_file.lines)
    /\ x_hist.wrote => IsPrefix(x_hist.ckpt.lines, output_csv.lines)

\* C8 as stated: in both pipelines a run that follows an interrupted run leaves
\* out the units whose output that run had persisted, and the rows it had
\* persisted are part of the final output.
C8_BothResume ==
    /\ ExtractionResumes
    /\ d_hist.prev = "interrupted"
          => /\ \A b \in Range(d_hist.processed) :
                    \A j \in 1..Len(d_hist.csv0.lines) :
                        d_hist.csv0.lines[j].Brand # BRANDS[b + 1]
             /\ d_pc = "done" => Range(d_hist.csv0.lines) \subseteq Range(out_csv.lines)

\* C8 as amended: only the extraction pipeline resumes (as in ExtractionResumes);
\* every run of the discovery pipeline takes the brands from the first one on,
\* whatever the CSV it finds, and its final CSV holds the rows of that run alone.
C8_OnlyExtractionResumes ==
    /\ ExtractionResumes
    /\ d_hist.processed = [j \in 1..Len(d_hist.processed) |-> j - 1]
    /\ Len(d_hist.processed) \in {d_i, d_i + 1}
    /\ d_pc = "done" => out_csv = write_outputs(all_rows)

\* A run started on the checkpoint an interrupted run left extracted the rest
\* and finished.
C8_Witness ==
    /\ x_run >= 2 /\ x_hist.prev = "exited"
    /\ Len(x_hist.ckpt.lines) >= 1
    /\ Len(x_hist.called) >= 1
    /\ x_pc = "done"

\* C9: the checkpoint is removed only once the final CSV and the spreadsheet
\* of this run are written, both holding every collected row; when the
\* spreadsheet write fails, checkpoint, CSV and the rows in memory stay as they
\* are, and checkpoint and CSV hold every collected row.
C9_CheckpointRemoval ==
    [][/\ (progress_file.exists /\ ~progress_file'.exists)
            => /\ x_pc = "cleanup"
               /\ x_hist.wrote
               /\ output_csv = to_csv(rows) /\ output_csv' = output_csv
               /\ output_xlsx = to_csv(rows) /\ output_xlsx' = output_xlsx
       /\ (x_pc = "final_xlsx" /\ x_pc' \in {"done_csv_only", "crashed"})
            => /\ progress_file' = progress_file /\ progress_file' = to_csv(rows)
               /\ output_csv' = output_csv /\ output_csv' = to_csv(rows)
               /\ rows' = rows]_vars

\* The spreadsheet could not be written; checkpoint and CSV hold the rows.
C9_Witness ==
    /\ x_pc = "done_csv_only"
    /\ ~output_xlsx.exists
    /\ Len(rows) = NRows
    /\ progress_file = to_csv(rows)
    /\ output_csv = to_csv(rows)

(***************************************************************************)
(* Properties of discover_for_brand (SpecDiscover).                        *)
(***************************************************************************)
\* Positions of `inp` that hold u and are the first of u's registered domain.
FirstOfDomain(inp, u) ==
    {i \in 1..Len(inp) :
        /\ inp[i] = u
        /\ \A k \in 1..(i - 1) : RegisteredDomain(inp[k]) # RegisteredDomain(u)}

\* C5: the output of dedupe_by_domain holds at most one URL per registered domain,
\* each the first URL of its domain in the input, in input order; the rows of one
\* brand hold each domain at most once.
C5_DomainDedup ==
    /\ dd # <<>> =>
         LET inp == dd[1]
             kept == dd[2]
         IN  /\ \A a, b \in 1..Len(kept) :
                   a # b => RegisteredDomain(kept[a]) # RegisteredDomain(kept[b])
             /\ \A a \in 1..Len(kept) : FirstOfDomain(inp, kept[a]) # {}
             /\ \A a, b \in 1..Len(kept) :
                   a < b => \A i \in FirstOfDomain(inp, kept[a]) :
                                \A k \in FirstOfDomain(inp, kept[b]) : i < k
    /\ \A a, b \in 1..Len(found_rows) :
           a # b => found_rows[a].Domain # found_rows[b].Domain

\* Two URLs of abcsupply.com, the shop one first: only that one is kept.
C5_Witness ==
    /\ dd # <<>>
    /\ dd[1] = <<"https://shop.abcsupply.com/parts", "http://192.168.0.1/hvac",
                 "https://abcsupply.com/carrier">>
    /\ dd[2] = <<"https://shop.abcsupply.com/parts">>

\* C6: no row discover_for_brand returns has a URL in which a string of
\* SKIP_DOMAIN_CONTAINS occurs.
C6_DenylistFiltering ==
    f_pc = "returned" =>
        \A j \in 1..Len(found_rows) : SkipSubstringsIn(found_rows[j].URL) = {}

(***************************************************************************)
(* Properties of the search backends (SpecSearch).                         *)
(***************************************************************************)
\* C7: neither backend lets an error of the search call through; a request
\* answered 403 ends the call at once (no retry) and the list returned is empty.
C7_BackendContract ==
    /\ s_pc # "raised"
    /\ s_net.blocked => s_pc \in {"returned", "raised"}
    /\ (s_pc = "returned" /\ s_net.blocked) => s_out = <<>>

(***************************************************************************)
(* Bounded subpage crawl                                                   *)
(***************************************************************************)
\* The distinct elements of a sequence, each at its first occurrence.
RECURSIVE DistinctInOrder(_)
DistinctInOrder(s) ==
    IF s = <<>> THEN <<>>
    ELSE LET front == DistinctInOrder(SubSeq(s, 1, Len(s) - 1))
             last  == s[Len(s)]
         IN  IF last \in Range(front) THEN front ELSE Append(front, last)

\* The requests of one extract_from_url call that follow the one for the
\* primary page.
SubpagesFetched == IF fetched = <<>> THEN <<>> ELSE Tail(fetched)

\* C11: within one extract_from_url call the subpages fetched are the first
\* candidates, at most SUBPAGE_CAP of them, of the deduplicated hinted links of
\* the primary page in the order the links appear on that page, and nothing
\* else is fetched (links of a subpage are never followed).
C11_BoundedCrawl ==
    /\ subs = Take(DistinctInOrder(out), SUBPAGE_CAP)
    /\ SubpagesFetched = Take(subs, sub_k)

\* What the crawl does guarantee: at most SUBPAGE_CAP distinct candidates of
\* the primary page, as many as the cap and the page allow, fetched one after
\* the other and nothing beyond them; which candidates and in which order is
\* left to the iteration order of a set.
CrawlBounded ==
    /\ Len(subs) <= SUBPAGE_CAP
    /\ \A a, b \in 1..Len(subs) : a # b => subs[a] # subs[b]
    /\ Range(subs) \subseteq Range(out)
    /\ Len(subs) = Len(Take(DistinctInOrder(out), SUBPAGE_CAP))
    /\ SubpagesFetched = Take(subs, sub_k)

\* The cap cuts the candidates of a page with more than SUBPAGE_CAP of them,
\* and the crawl has visited all it kept.
CrawlTruncated ==
    /\ e_pc = "done"
    /\ Cardinality(Range(out)) > SUBPAGE_CAP
    /\ Len(SubpagesFetched) = SUBPAGE_CAP

=============================================================================
